---- MODULE Spec2Model ----
(***************************************************************************)
(* mangle_serde: the Datum value type, the two data profiles (MappedData,  *)
(* ArrayData), their symmetric serialize/deserialize operations and the    *)
(* binary codec (Vec<u8>), as a state machine of API calls on one profile. *)
(*                                                                         *)
(* Representation                                                          *)
(*   u8            0..255                                                  *)
(*   Vec<u8>, String   sequence of u8 (a String is its UTF-8 bytes)        *)
(*   u64 / usize   4 big-endian limbs of 16 bits, u32 2 limbs (TLC's       *)
(*                 integers are 32 bits wide, a u64 does not fit in one)   *)
(*   Datum         [type, val, inner]: val the bytes or limbs of a scalar, *)
(*                 inner the profile a Map or an Array holds               *)
(*   a value of a Rust type T   [ty |-> T, val |-> its Datum]              *)
(*   every record has the same fields whatever variant it stands for, so   *)
(*   that TLC can compare any two of them                                  *)
(*   Result<..>    [res |-> "Ok" | "Err" | "Panic", ...]; "Panic" is an    *)
(*                 abort of the process (panic!, todo!, unimplemented!)    *)
(***************************************************************************)
EXTENDS Integers, Sequences, FiniteSets, TLC

\* ------------------------------------------------------------------ bounds

\* most items pushed into one profile, and most calls made on one profile
MaxItems == 2
\* a decoded length at or above this value is kept as this value: every
\* buffer of the model is shorter, and a length is only compared with one
Huge == 4194304

\* ---------------------------------------------------------------- helpers

Min(a, b) == IF a < b THEN a ELSE b

Rep(b, n) == [i \in 1..n |-> b]

Take(s, n) == SubSeq(s, 1, n)
Drop(s, n) == SubSeq(s, n + 1, Len(s))

Prefixes(s) == { Take(s, n) : n \in 0..Len(s) }

RECURSIVE SeqsUpTo(_, _)
SeqsUpTo(S, n) ==
    IF n = 0 THEN { <<>> }
    ELSE LET shorter == SeqsUpTo(S, n - 1)
         IN  shorter \cup { Append(s, e) : s \in { t \in shorter : Len(t) = n - 1 }, e \in S }

\* ------------------------------------------------------- datum.rs: Datum

\* SerdeData<S, D>: the variant and its payload, which is the items of a
\* Serializing ArrayData, the entries of a Serializing MappedData, the
\* Vec<u8> of a Deserializing ArrayData (buf) or the DatumMap of a
\* Deserializing MappedData (store)
EmptyMap == [k \in {} |-> 0]
NoStore  == [impl |-> "none", K |-> "", tbl |-> EmptyMap]
NoData   ==
    [variant |-> "None", items |-> <<>>, entries |-> EmptyMap, buf |-> <<>>, store |-> NoStore]
\* no profile: what a scalar Datum holds, and what is left of a profile
\* that was moved into a conversion
Moved == [base |-> "none", serializing |-> FALSE, data |-> NoData]

Str(s)    == [type |-> "String", val |-> s, inner |-> Moved]
U32(n)    == [type |-> "U32", val |-> n, inner |-> Moved]
U64(n)    == [type |-> "U64", val |-> n, inner |-> Moved]
MapD(m)   == [type |-> "Map", val |-> <<>>, inner |-> m]
ArrayD(a) == [type |-> "Array", val |-> <<>>, inner |-> a]
\* no Datum at all (an absent Option<Datum>, a call that pulled nothing)
NoDatum   == [type |-> "None", val |-> <<>>, inner |-> Moved]

get_type(d) == d.type

DatumTypes == {"String", "U32", "U64", "Map", "Array"}
DatumSizes == {"U8", "U16", "U32", "U64"}

\* impl Default for Datum
Datum_default == U32(<<0, 0>>)

into_byte_size(size) ==
    CASE size = "U8"  -> 1
      [] size = "U16" -> 2
      [] size = "U32" -> 4
      [] size = "U64" -> 8

\* the k low bytes of n, most significant first: (n as uK).to_be_bytes()
RECURSIVE low_be_bytes(_, _)
low_be_bytes(n, k) ==
    IF k = 0 THEN <<>> ELSE Append(low_be_bytes(n \div 256, k - 1), n % 256)

serialize_usize_wide(size, n) == low_be_bytes(n, 8)

serialize_usize_saturating(size, n) ==
    CASE size = "U8"  -> low_be_bytes(Min(n, 255), 1)
      [] size = "U16" -> low_be_bytes(Min(n, 65535), 2)
      [] OTHER        -> low_be_bytes(n, into_byte_size(size))

\* DatumSize::serialize_usize: (size as u8), (size as u16).to_be_bytes(), ..
serialize_usize(size, n) ==
    CASE size = "U8"  -> low_be_bytes(n, 1)
      [] size = "U16" -> low_be_bytes(n, 2)
      [] size = "U32" -> low_be_bytes(n, 4)
      [] size = "U64" -> low_be_bytes(n, 8)

RECURSIVE to_le_bytes(_)
to_le_bytes(limbs) ==
    IF limbs = <<>> THEN <<>>
    ELSE to_le_bytes(Tail(limbs)) \o <<Head(limbs) % 256, Head(limbs) \div 256>>

\* uN::to_be_bytes on the limbs of a number
RECURSIVE to_be_bytes(_)
to_be_bytes(limbs) ==
    IF limbs = <<>> THEN <<>>
    ELSE <<Head(limbs) \div 256, Head(limbs) % 256>> \o to_be_bytes(Tail(limbs))

RECURSIVE from_le_bytes(_)
from_le_bytes(bytes) ==
    IF bytes = <<>> THEN <<>>
    ELSE from_le_bytes(Drop(bytes, 2)) \o <<bytes[2] * 256 + bytes[1]>>

\* uN::from_be_bytes into the limbs of a number (an even number of bytes)
RECURSIVE from_be_bytes(_)
from_be_bytes(bytes) ==
    IF bytes = <<>> THEN <<>>
    ELSE <<bytes[1] * 256 + bytes[2]>> \o from_be_bytes(Drop(bytes, 2))

\* uN::from_be_bytes(..) as usize, kept below Huge
RECURSIVE be_usize(_)
be_usize(bytes) ==
    IF bytes = <<>> THEN 0
    ELSE Min(be_usize(Take(bytes, Len(bytes) - 1)) * 256 + bytes[Len(bytes)], Huge)

\* ------------------------------------------- lib.rs: DeserializationError

\* a piece of a String that is never decoded again: a literal, or the
\* {:?} rendering of a Datum
Lit(s)      == [of |-> NoDatum, piece |-> s]
DebugFmt(d) == [of |-> d, piece |-> "{:?}"]

NoError == [e |-> "None", field |-> <<>>, expected |-> "", actual |-> <<>>]
MissingField(name) ==
    [e |-> "MissingField", field |-> name, expected |-> "", actual |-> <<>>]
InvalidType(field, expected, actual) ==
    [e |-> "InvalidType", field |-> field, expected |-> expected, actual |-> <<Lit(actual)>>]
NoMatch(field, actual) ==
    [e |-> "NoMatch", field |-> field, expected |-> "", actual |-> actual]
FromUTF8Error == [e |-> "FromUTF8Error", field |-> <<>>, expected |-> "", actual |-> <<>>]
UnexpectedEOF == [e |-> "UnexpectedEOF", field |-> <<>>, expected |-> "", actual |-> <<>>]

set_field_never(err, new_field) == err
set_field(err, new_field) ==
    IF err.e \in {"InvalidType", "NoMatch"}
    THEN [err EXCEPT !.field = new_field]
    ELSE err

\* ------------------------------------------------------ binary.rs: decode

None == [some |-> FALSE, first |-> <<>>, rest |-> <<>>]
Some(first, rest) == [some |-> TRUE, first |-> first, rest |-> rest]

split_unchecked(arr, size) ==
    Some(Take(arr, Min(size, Len(arr))), Drop(arr, Min(size, Len(arr))))

\* split and split_arr: the Option returned and the buffer left behind
split(arr, size) ==
    IF Len(arr) < size THEN [None EXCEPT !.rest = arr]
    ELSE Some(Take(arr, size), Drop(arr, size))

split_arr(arr, SIZE) ==
    IF Len(arr) < SIZE THEN [None EXCEPT !.rest = arr]
    ELSE Some(Take(arr, SIZE), Drop(arr, SIZE))

\* uN::from_be_bytes(split_arr::<N>(arr)?) as usize
size_of(s) == IF s.some THEN Some(be_usize(s.first), s.rest) ELSE s

get_size(arr, datum_size) ==
    IF arr = <<>> THEN [None EXCEPT !.rest = arr]
    ELSE CASE datum_size = "U8"  -> Some(arr[1], Tail(arr))
           [] datum_size = "U16" -> size_of(split_arr(arr, 2))
           [] datum_size = "U32" -> size_of(split_arr(arr, 4))
           [] datum_size = "U64" -> size_of(split_arr(arr, 8))

\* String::from_utf8: whether the bytes are UTF-8.  Exact for the bytes
\* 00..DF and F5..FF (one- and two-byte forms); E0..F4 never occur here.
is_utf8(bytes) ==
    \A i \in 1..Len(bytes) :
        \/ bytes[i] < 128
        \/ /\ bytes[i] >= 194 /\ bytes[i] <= 223
           /\ i < Len(bytes)
           /\ bytes[i + 1] >= 128 /\ bytes[i + 1] <= 191
        \/ /\ bytes[i] >= 128 /\ bytes[i] <= 191
           /\ i > 1
           /\ bytes[i - 1] >= 194 /\ bytes[i - 1] <= 223

\* Result<Datum, DeserializationError> of a pull, with the buffer left
Pulled(datum, rest) == [res |-> "Ok", datum |-> datum, err |-> NoError, rest |-> rest]
Failed(err, rest)   == [res |-> "Err", datum |-> NoDatum, err |-> err, rest |-> rest]
Aborted(rest)       == [res |-> "Panic", datum |-> NoDatum, err |-> NoError, rest |-> rest]

\* Datum::from(String::from_utf8(split(self, size).ok_or(UnexpectedEOF)?)?)
string_of(s) ==
    IF ~s.some THEN Failed(UnexpectedEOF, s.rest)
    ELSE IF ~is_utf8(s.first) THEN Failed(FromUTF8Error, s.rest)
    ELSE Pulled(Str(s.first), s.rest)

\* let size = get_size(self, datum_size).ok_or(UnexpectedEOF)?
sized_string(n) ==
    IF ~n.some THEN Failed(UnexpectedEOF, n.rest)
    ELSE string_of(split(n.rest, n.first))

\* Datum::from(u64::from_be_bytes(split_arr::<8>(self).ok_or(UnexpectedEOF)?))
u64_of(s) ==
    IF ~s.some THEN Failed(UnexpectedEOF, s.rest)
    ELSE Pulled(U64(from_be_bytes(s.first)), s.rest)

Vec_get_datum_u32(arr, datum_type, datum_size) ==
    CASE datum_type = "String" -> sized_string(get_size(arr, datum_size))
      [] datum_type = "U64"    -> u64_of(split_arr(arr, 8))
      [] datum_type = "U32"    ->
           IF Len(arr) < 4 THEN Failed(UnexpectedEOF, arr)
           ELSE Pulled(U32(from_be_bytes(Take(arr, 4))), Drop(arr, 4))
      [] OTHER                 -> Aborted(arr)

\* impl DatumArray for Vec<u8>
Vec_get_datum(arr, datum_type, datum_size) ==
    CASE datum_type = "String" -> sized_string(get_size(arr, datum_size))
      [] datum_type = "U64"    -> u64_of(split_arr(arr, 8))
      [] OTHER                 -> Aborted(arr)

\* ------------------------------------------- datum.rs: values and Datum

\* a value of a Rust type T, held as the Datum that From<T> makes of it
Val(ty, val) == [ty |-> ty, val |-> val]

\* impl Default for T
Default(ty) ==
    CASE ty = "String" -> Val(ty, Str(<<>>))
      [] ty = "&str"   -> Val(ty, Str(<<>>))
      [] ty = "u64"    -> Val(ty, U64(<<0, 0, 0, 0>>))
      [] ty = "usize"  -> Val(ty, U64(<<0, 0, 0, 0>>))
      [] ty = "u32"    -> Val(ty, U32(<<0, 0>>))
      [] ty = "Datum"  -> Val(ty, Datum_default)

\* impl From<T> for Datum
into_Datum(v) == v.val

\* impl GetDatumType for T
get_datum_type(ty) ==
    CASE ty = "String" -> "String"
      [] ty = "&str"   -> "String"
      [] ty = "u64"    -> "U64"

\* Result<T, DeserializationError> of a conversion
Converted(v) == [res |-> "Ok", val |-> v, err |-> NoError]
NotConverted(ty, err) == [res |-> "Err", val |-> Default(ty), err |-> err]

\* impl TryFrom<Datum> for T
try_from_Datum(ty, d) ==
    CASE ty = "String" ->
           IF d.type = "String" THEN Converted(Val(ty, d))
           ELSE NotConverted(ty, InvalidType(<<>>, "String", "todo!"))
      [] ty = "u64" ->
           IF d.type = "U64" THEN Converted(Val(ty, d))
           ELSE NotConverted(ty, InvalidType(<<>>, "u64", "todo!"))
      [] ty = "usize" ->
           IF d.type = "U64" THEN Converted(Val(ty, d))
           ELSE NotConverted(ty, InvalidType(<<>>, "u64", "todo!"))
      [] ty = "u32" ->
           IF d.type = "U32" THEN Converted(Val(ty, d))
           ELSE NotConverted(ty, InvalidType(<<>>, "u32", "todo!"))
      [] ty = "Datum" -> Converted(Val(ty, d))

\* the number a u32 or u64 payload stands for, as limbs without leading zeros
RECURSIVE strip_zeros(_)
strip_zeros(limbs) ==
    IF limbs # <<>> /\ Head(limbs) = 0 THEN strip_zeros(Tail(limbs)) ELSE limbs

\* a comparison: "true", "false", or "panic" (unimplemented!)
Bool(b) == IF b THEN "true" ELSE "false"

Datum_eq_by_payload(self, other) ==
    CASE self.type = "String" -> Bool(other.type = "String" /\ self.val = other.val)
      [] self.type \in {"U32", "U64"} ->
           Bool(other.type \in {"U32", "U64"} /\ strip_zeros(self.val) = strip_zeros(other.val))
      [] OTHER -> "panic"

\* impl PartialEq for Datum
Datum_eq(self, other) ==
    CASE self.type = "String" -> Bool(other.type = "String" /\ self.val = other.val)
      [] self.type = "U32"    -> Bool(other.type = "U32" /\ self.val = other.val)
      [] self.type = "U64"    -> Bool(other.type = "U64" /\ self.val = other.val)
      [] self.type = "Map"    -> "panic"
      [] self.type = "Array"  -> "panic"

\* impl PartialEq<Datum> for &str
str_eq_Datum(self, other) ==
    IF other.type = "String" THEN Bool(self.val = other.val) ELSE "false"

\* V: PartialEq<Datum>, for the two types that implement it
eq_Datum(v, other) ==
    IF v.ty = "&str" THEN str_eq_Datum(v.val, other) ELSE Datum_eq(v.val, other)

\* impl Clone for Datum, and for &str: the clone, or "panic"
Cloned(v) == [res |-> "Ok", val |-> v]
clone(v) ==
    IF v.val.type \in {"Map", "Array"}
    THEN [res |-> "Panic", val |-> v]
    ELSE Cloned(v)

\* ----------------------------------------- profiles: the two containers

\* impl DataProfile for ArrayData / MappedData
is_serial(p) == p.serializing

ArrayData_serial_ready ==
    [base |-> "ArrayData", serializing |-> TRUE,
     data |-> [NoData EXCEPT !.variant = "Serializing"]]

\* HashMap<Datum, Datum>: a function from the keys to the values
MappedData_serial_ready ==
    [base |-> "MappedData", serializing |-> TRUE,
     data |-> [NoData EXCEPT !.variant = "Serializing"]]

\* impl<D: DatumArray> ProfileFromData<D> for ArrayData
ArrayData_try_from(data) ==
    [base |-> "ArrayData", serializing |-> FALSE,
     data |-> [NoData EXCEPT !.variant = "Deserializing", !.buf = data]]

\* impl<D: DatumMap> ProfileFromData<D> for MappedData
MappedData_try_from(data) ==
    [base |-> "MappedData", serializing |-> FALSE,
     data |-> [NoData EXCEPT !.variant = "Deserializing", !.store = data]]

\* P::serial_ready() of a profile made by make_data_profile! over the base
serial_ready(base) ==
    IF base = "ArrayData" THEN ArrayData_serial_ready ELSE MappedData_serial_ready

\* core::mem::swap(a, b): what a and b hold after it
swap(a, b) == [a |-> b, b |-> a]

convert_data_profile_payload(src) ==
    [new |-> [serial_ready(src.base) EXCEPT !.data = src.data],
     src |-> [src EXCEPT !.data = serial_ready(src.base).data]]

convert_data_profile_fresh(src) ==
    [new |-> serial_ready(src.base), src |-> src]

\* profiles.rs: convert_data_profile: the profile returned, and what is
\* left in src when the function ends
convert_data_profile(src) ==
    [new |-> swap(src, serial_ready(src.base)).b,
     src |-> swap(src, serial_ready(src.base)).a]

\* ------------------------------------------------------ binary.rs: encode

Bytes(b)   == [res |-> "Ok", bytes |-> b]
NoBytes    == [res |-> "Panic", bytes |-> <<>>]

RECURSIVE Datum_into_Vec(_)
RECURSIVE ArrayData_into_Vec(_)
RECURSIVE encode_items(_, _)
RECURSIVE encode_item(_, _, _)

\* impl From<Datum> for Vec<u8>
Datum_into_Vec(d) ==
    CASE d.type = "String" -> Bytes(d.val)
      [] d.type = "U64"    -> Bytes(to_be_bytes(d.val))
      [] d.type = "U32"    -> Bytes(to_be_bytes(d.val))
      [] d.type = "Map"    -> NoBytes
      [] d.type = "Array"  -> ArrayData_into_Vec(d.inner)

\* the loop of ProfileToData<Vec<u8>>::into over the items left, out so far
encode_items(items, out) ==
    IF items = <<>> THEN Bytes(out)
    ELSE encode_item(items, out, Datum_into_Vec(Head(items)[1]))

\* the body of the loop: bytes is what datum.into() gave for the first item
encode_item(items, out, bytes) ==
    IF bytes.res = "Panic" THEN NoBytes
    ELSE IF get_type(Head(items)[1]) = "String"
    THEN encode_items(Tail(items),
             out \o serialize_usize(Head(items)[2], Len(bytes.bytes)) \o bytes.bytes)
    ELSE encode_items(Tail(items), out \o bytes.bytes)

\* impl ProfileToData<Vec<u8>> for ArrayData; into_serialized_items panics
\* on a Deserializing profile
ArrayData_into_Vec(p) ==
    IF p.data.variant # "Serializing" THEN NoBytes
    ELSE encode_items(p.data.items, <<>>)

\* ------------------------------------------------ profiles/array.rs

\* writeln!(&mut debug_string, "{:?}", item) on an empty String
debug_string(item) == <<DebugFmt(item), Lit("\n")>>

\* what a call returns and leaves behind: the profile after it, Ok / Err /
\* Panic, the error, the slot (`into`) after it, and the Datum it pulled
NoVal == Val("none", NoDatum)
Returned(p, into, pulled) ==
    [profile |-> p, res |-> "Ok", err |-> NoError, into |-> into, pulled |-> pulled]
Raised(p, err, into, pulled) ==
    [profile |-> p, res |-> "Err", err |-> err, into |-> into, pulled |-> pulled]
Panicked(p, into) ==
    [profile |-> p, res |-> "Panic", err |-> NoError, into |-> into, pulled |-> NoDatum]

\* the loop `for maybe_match in matches { if maybe_match.eq(&item) .. }`:
\* the index of the candidate taken, 0 when the loop ends without one,
\* -1 when a comparison panics
RECURSIVE scan_matches(_, _, _)
RECURSIVE scan_match(_, _, _, _)
scan_matches(matches, item, i) ==
    IF i > Len(matches) THEN 0
    ELSE scan_match(matches, item, i, eq_Datum(matches[i], item))

scan_match(matches, item, i, eq) ==
    IF eq = "panic" THEN -1
    ELSE IF eq = "true" THEN i
    ELSE scan_matches(matches, item, i + 1)

\* SerdeArray::push_item_sized
push_item_sized(p, item, size) ==
    IF p.data.variant # "Serializing" THEN Panicked(p, NoVal)
    ELSE Returned([p EXCEPT !.data.items = Append(@, <<into_Datum(item), size>>)],
                  NoVal, NoDatum)

\* SerdeArray::push_item
push_item(p, item) == push_item_sized(p, item, "U32")

\* x.get_datum(..).map_err(Into::into), r what get_datum returned
got_item(p, r) ==
    CASE r.res = "Ok"    -> Returned([p EXCEPT !.data.buf = r.rest], NoVal, r.datum)
      [] r.res = "Err"   -> Raised([p EXCEPT !.data.buf = r.rest], r.err, NoVal, NoDatum)
      [] r.res = "Panic" -> Panicked([p EXCEPT !.data.buf = r.rest], NoVal)

\* SerdeArray::get_item_sized, for the Datum type T::get_datum_type()
get_item_sized(p, datum_type, size) ==
    IF p.data.variant # "Deserializing" THEN Panicked(p, NoVal)
    ELSE got_item(p, Vec_get_datum(p.data.buf, datum_type, size))

\* SerdeArray::get_item
get_item(p, ty) == get_item_sized(p, get_datum_type(ty), "U32")

\* ArrayData::serialize_item
serialize_item(p, item) == push_item(p, item)

\* *into = TryFrom::try_from(item)?, g what get_item returned, c the conversion
item_into(g, c, into) ==
    IF c.res = "Ok" THEN Returned(g.profile, c.val, g.pulled)
    ELSE Raised(g.profile, c.err, into, g.pulled)

\* self.data.get_item::<T>()?, g what get_item returned
item_got(g, into) ==
    IF g.res # "Ok" THEN [g EXCEPT !.into = into]
    ELSE item_into(g, try_from_Datum(into.ty, g.pulled), into)

\* ArrayData::deserialize_item
deserialize_item(p, into) == item_got(get_item(p, into.ty), into)

\* the end of a matched call: i is what the loop over matches gave, field
\* the name the error carries
matched(g, i, into, matches, field) ==
    CASE i = -1 -> [Panicked(g.profile, into) EXCEPT !.pulled = g.pulled]
      [] i = 0  -> Raised(g.profile, NoMatch(field, debug_string(g.pulled)), into, g.pulled)
      [] OTHER  -> Returned(g.profile, matches[i], g.pulled)

\* the same where the candidate is cloned
cloned_matched(g, i, into, matches, field) ==
    CASE i = -1 -> [Panicked(g.profile, into) EXCEPT !.pulled = g.pulled]
      [] i = 0  -> Raised(g.profile, NoMatch(field, debug_string(g.pulled)), into, g.pulled)
      [] OTHER  -> IF clone(matches[i]).res = "Panic"
                   THEN [Panicked(g.profile, into) EXCEPT !.pulled = g.pulled]
                   ELSE Returned(g.profile, clone(matches[i]).val, g.pulled)

\* the matched calls after the pull, g what the pull returned
match_got(g, into, matches, field) ==
    IF g.res # "Ok" THEN [g EXCEPT !.into = into]
    ELSE matched(g, scan_matches(matches, g.pulled, 1), into, matches, field)

cloned_match_got(g, into, matches, field) ==
    IF g.res # "Ok" THEN [g EXCEPT !.into = into]
    ELSE cloned_matched(g, scan_matches(matches, g.pulled, 1), into, matches, field)

\* ArrayData::deserialize_matched_item
deserialize_matched_item(p, into, matches) ==
    match_got(get_item(p, into.ty), into, matches, <<>>)

\* ArrayData::deserialize_cloned_matched_item
deserialize_cloned_matched_item(p, into, matches) ==
    cloned_match_got(get_item(p, into.ty), into, matches, <<>>)

\* ArrayData::serde_item
serde_item(p, into) ==
    IF is_serial(p)
    THEN [serialize_item(p, into) EXCEPT !.into = Default(into.ty)]
    ELSE deserialize_item(p, into)

\* ArrayData::serde_matched_item
serde_matched_item(p, into, matches) ==
    IF is_serial(p)
    THEN [serialize_item(p, into) EXCEPT !.into = Default(into.ty)]
    ELSE deserialize_matched_item(p, into, matches)

\* ArrayData::serde_cloned_matched_item
serde_cloned_matched_item(p, into, matches) ==
    IF is_serial(p)
    THEN [serialize_item(p, into) EXCEPT !.into = Default(into.ty)]
    ELSE deserialize_cloned_matched_item(p, into, matches)

\* ArrayData::into_serialized_items: the items, or a panic
into_serialized_items(p) ==
    IF p.data.variant = "Serializing"
    THEN [res |-> "Ok", items |-> p.data.items]
    ELSE [res |-> "Panic", items |-> <<>>]

\* ------------------------------------- datum.rs, json.rs: DatumMap

\* limbs / 10 and limbs % 10, the limbs taken from the most significant, r
\* the remainder carried in: <<quotient, remainder>>
RECURSIVE div10(_, _)
RECURSIVE div10_next(_, _, _)
div10(limbs, r) ==
    IF limbs = <<>> THEN <<<<>>, r>>
    ELSE div10_next(limbs, r, div10(Tail(limbs), (r * 65536 + Head(limbs)) % 10))

div10_next(limbs, r, rest) ==
    <<<<(r * 65536 + Head(limbs)) \div 10>> \o rest[1], rest[2]>>

\* u64::to_string and u32::to_string: the decimal digits, in ASCII
RECURSIVE digits(_)
RECURSIVE digits_next(_)
digits(limbs) ==
    IF strip_zeros(limbs) = <<>> THEN <<>> ELSE digits_next(div10(limbs, 0))

digits_next(qr) == Append(digits(qr[1]), 48 + qr[2])

to_string(limbs) == IF strip_zeros(limbs) = <<>> THEN <<48>> ELSE digits(limbs)

\* Datum::to_key_string: the String, or a panic (unimplemented!)
to_key_string(d) ==
    CASE d.type = "String" -> Bytes(d.val)
      [] d.type = "U32"    -> Bytes(to_string(d.val))
      [] d.type = "U64"    -> Bytes(to_string(d.val))
      [] OTHER             -> NoBytes

\* what a DatumMap holds under a key: a V: Into<Datum> of a HashMap (json is
\* "Datum"), or a JsonValue of a json object (d is its String, the
\* magnitude of its Number with `neg` its sign, or its Object as the Datum
\* that ProfileFromData makes of it)
Stored(d)     == [json |-> "Datum", neg |-> FALSE, d |-> d]
JString(s)    == [json |-> "String", neg |-> FALSE, d |-> Str(s)]
JNumber(n)    == [json |-> "Number", neg |-> FALSE, d |-> U64(n)]
JNegative(n)  == [json |-> "Number", neg |-> TRUE, d |-> U64(n)]
JNull         == [json |-> "Null", neg |-> FALSE, d |-> NoDatum]

\* the DatumMap implementations: HashMap<K, V> and json's object (Table);
\* tbl maps the keys, as Datum, to what is stored
HashMap(K, tbl) == [impl |-> "HashMap", K |-> K, tbl |-> tbl]
Table(tbl)      == [impl |-> "Table", K |-> "String", tbl |-> tbl]

JObject(tbl) ==
    [json |-> "Object", neg |-> FALSE,
     d |-> MapD([base |-> "MappedData", serializing |-> FALSE,
                 data |-> [NoData EXCEPT !.variant = "Deserializing", !.store = Table(tbl)]])]

\* self.remove(key): the store without the key
remove_nothing(store, k) == store

\* HashMap::remove, Map::remove: the store without the key
remove(store, k) ==
    [store EXCEPT !.tbl = [kk \in (DOMAIN store.tbl) \ {k} |-> store.tbl[kk]]]

\* json.rs: impl TryFrom<Value> for Datum, the store left being `rest`
Value_into_Datum(x, rest) ==
    CASE x.json = "Object" -> Pulled(x.d, rest)
      [] x.json = "Number" ->
           IF x.neg THEN Failed(InvalidType(<<>>, "integer", "nan"), rest)
           ELSE Pulled(x.d, rest)
      [] x.json = "String" -> Pulled(x.d, rest)
      [] OTHER -> Aborted(rest)

\* match self.remove(&k) of HashMap::get_datum, k what K::try_from gave
HashMap_remove(store, key, k) ==
    IF k.res # "Ok" THEN Failed(k.err, store)
    ELSE IF key \in DOMAIN store.tbl
    THEN Pulled(store.tbl[key].d, remove(store, key))
    ELSE Failed(MissingField(to_key_string(key).bytes), store)

\* datum.rs: impl DatumMap for HashMap<K, V>; key.clone() panics first
HashMap_get_datum(store, key) ==
    IF key.type \in {"Map", "Array"} THEN Aborted(store)
    ELSE HashMap_remove(store, key, try_from_Datum(store.K, key))

\* match self.remove(key_string.as_str()) of Table::get_datum
Table_remove(store, key_string) ==
    IF key_string.res = "Panic" THEN Aborted(store)
    ELSE IF Str(key_string.bytes) \in DOMAIN store.tbl
    THEN Value_into_Datum(store.tbl[Str(key_string.bytes)],
                          remove(store, Str(key_string.bytes)))
    ELSE Failed(MissingField(key_string.bytes), store)

\* json.rs: impl DatumMap for Table
Table_get_datum(store, key) == Table_remove(store, to_key_string(key))

\* x.get_datum(key) on the Box<dyn DatumMap>
get_datum(store, key) ==
    IF store.impl = "HashMap" THEN HashMap_get_datum(store, key)
    ELSE Table_get_datum(store, key)

\* --------------------------------------- json.rs: Datum into Value

\* limbs + 1, wrapping
add_one(limbs) ==
    CASE limbs[4] < 65535 -> [limbs EXCEPT ![4] = @ + 1]
      [] limbs[3] < 65535 -> [limbs EXCEPT ![3] = @ + 1, ![4] = 0]
      [] limbs[2] < 65535 -> [limbs EXCEPT ![2] = @ + 1, ![3] = 0, ![4] = 0]
      [] OTHER            -> <<(limbs[1] + 1) % 65536, 0, 0, 0>>

\* the magnitude of a negative i64 given by the limbs of its bits
unsigned_abs(limbs) == add_one([i \in 1..4 |-> 65535 - limbs[i]])

\* (n as i64).into(): the bits of n read as an i64, whose sign and
\* magnitude make the Number
as_i64_into(limbs) ==
    IF limbs[1] >= 32768 THEN JNegative(unsigned_abs(limbs)) ELSE JNumber(limbs)

\* a Value that the conversion panicked instead of making
NoValue == [json |-> "Panic", neg |-> FALSE, d |-> NoDatum]
JArray(d) == [json |-> "Array", neg |-> FALSE, d |-> d]

\* table.insert(name, ..) for each entry in the order a HashMap gives
\* them, which is any: the key whose entry stays under each name
Picks(entries) ==
    { pick \in [{ Str(to_key_string(k).bytes) : k \in DOMAIN entries } -> DOMAIN entries] :
        \A nm \in DOMAIN pick : Str(to_key_string(pick[nm]).bytes) = nm }

\* impl From<Datum> for Value; a Map or an Array inside is converted as
\* its profile is (the Maps inside hold no two keys of one name here, so
\* that one pick stands for all)
RECURSIVE Datum_into_Value(_)
Object_of(entries, pick) ==
    IF \E nm \in DOMAIN pick : Datum_into_Value(entries[pick[nm]]) = NoValue
    THEN NoValue
    ELSE JObject([nm \in DOMAIN pick |-> Datum_into_Value(entries[pick[nm]])])
Datum_into_Value(d) ==
    CASE d.type = "U64"    -> as_i64_into(d.val)
      [] d.type = "U32"    -> as_i64_into(<<0, 0>> \o d.val)
      [] d.type = "String" -> JString(d.val)
      [] d.type = "Map"    ->
           IF d.inner.data.variant # "Serializing" THEN NoValue
           ELSE Object_of(d.inner.data.entries,
                          CHOOSE pick \in Picks(d.inner.data.entries) : TRUE)
      [] d.type = "Array"  ->
           IF d.inner.data.variant # "Serializing" THEN NoValue ELSE JArray(d)

\* impl ProfileToData<Value> for MappedData: the Values it may give
MappedData_into_Value(p) ==
    IF p.data.variant # "Serializing" THEN {NoValue}
    ELSE { Object_of(p.data.entries, pick) : pick \in Picks(p.data.entries) }

\* impl ProfileFromData<Value> for MappedData
MappedData_try_from_Value(data) ==
    IF data.json = "Object"
    THEN [res |-> "Ok", err |-> NoError, profile |-> MappedData_try_from(data.d.inner.data.store)]
    ELSE [res |-> "Err", err |-> InvalidType(Lit("<global>"), "table", "todo!"),
          profile |-> Moved]

\* -------------------------------------------------- profiles/map.rs

set_keep_first(p, key, value) ==
    IF p.data.variant # "Serializing" THEN Panicked(p, NoVal)
    ELSE IF key.type \in {"Map", "Array"} THEN Panicked(p, NoVal)
    ELSE Returned([p EXCEPT !.data.entries =
                      [k \in (DOMAIN @) \cup {key} |-> IF k \in DOMAIN @ THEN @[k] ELSE value]],
                  NoVal, NoDatum)

\* SerdeMap::set; HashMap::insert hashes the key, which panics on a Map or
\* an Array (impl Hash for Datum)
set(p, key, value) ==
    IF p.data.variant # "Serializing" THEN Panicked(p, NoVal)
    ELSE IF key.type \in {"Map", "Array"} THEN Panicked(p, NoVal)
    ELSE Returned([p EXCEPT !.data.entries =
                      [k \in (DOMAIN @) \cup {key} |-> IF k = key THEN value ELSE @[k]]],
                  NoVal, NoDatum)

\* x.get_datum(key), r what it returned
got_entry(p, r) ==
    CASE r.res = "Ok"    -> Returned([p EXCEPT !.data.store = r.rest], NoVal, r.datum)
      [] r.res = "Err"   -> Raised([p EXCEPT !.data.store = r.rest], r.err, NoVal, NoDatum)
      [] r.res = "Panic" -> Panicked([p EXCEPT !.data.store = r.rest], NoVal)

get_or_missing(p, key) ==
    IF p.data.variant # "Deserializing" THEN Raised(p, MissingField(<<>>), NoVal, NoDatum)
    ELSE got_entry(p, get_datum(p.data.store, key))

\* SerdeMap::get
get(p, key) ==
    IF p.data.variant # "Deserializing" THEN Panicked(p, NoVal)
    ELSE got_entry(p, get_datum(p.data.store, key))

\* MappedData::serialize_entry
serialize_entry(p, name, value) == set(p, into_Datum(name), into_Datum(value))

\* impl TransformResult for Result: c the conversion
transform(c, new_field) ==
    IF c.res = "Ok" THEN c ELSE [c EXCEPT !.err = set_field(c.err, new_field)]

\* *into = self.data.get(&name_ref)?.try_into().transform(..)?
entry_got(g, name_ref, into) ==
    IF g.res # "Ok" THEN [g EXCEPT !.into = into]
    ELSE item_into(g, transform(try_from_Datum(into.ty, g.pulled),
                                to_key_string(name_ref).bytes),
                   into)

\* MappedData::deserialize_entry
deserialize_entry(p, name, into) == entry_got(get(p, into_Datum(name)), into_Datum(name), into)

\* MappedData::deserialize_matched_entry
deserialize_matched_entry(p, name, into, matches) ==
    match_got(get(p, into_Datum(name)), into, matches, to_key_string(into_Datum(name)).bytes)

\* MappedData::deserialize_cloned_matched_entry
deserialize_cloned_matched_entry(p, name, into, matches) ==
    cloned_match_got(get(p, into_Datum(name)), into, matches,
                     to_key_string(into_Datum(name)).bytes)

\* MappedData::serde_entry
serde_entry(p, name, value) ==
    IF p.serializing
    THEN [serialize_entry(p, name, value) EXCEPT !.into = Default(value.ty)]
    ELSE deserialize_entry(p, name, value)

serde_matched_entry_take(p, name, value, matches) ==
    deserialize_matched_entry(p, name, value, matches)

\* MappedData::serde_matched_entry (the name is of the type of the value)
serde_matched_entry(p, name, value, matches) ==
    IF p.serializing
    THEN [serialize_entry(p, name, value) EXCEPT !.into = Default(value.ty)]
    ELSE deserialize_matched_entry(p, name, value, matches)

serde_cloned_matched_entry_take(p, name, value, matches) ==
    deserialize_cloned_matched_entry(p, name, value, matches)

\* MappedData::serde_cloned_matched_entry
serde_cloned_matched_entry(p, name, value, matches) ==
    IF p.serializing
    THEN [serialize_entry(p, name, value) EXCEPT !.into = Default(value.ty)]
    ELSE deserialize_cloned_matched_entry(p, name, value, matches)

\* MappedData::into_serialized_entries: the entries, or a panic
into_serialized_entries(p) ==
    IF p.data.variant = "Serializing"
    THEN [res |-> "Ok", entries |-> p.data.entries]
    ELSE [res |-> "Panic", entries |-> EmptyMap]

\* ------------------------------------------------- lib.rs: trait Serde

\* the names of the fields of TestStruct and the candidates of its name
Key_name    == Str(<<110, 97, 109, 101>>)
Key_age     == Str(<<97, 103, 101>>)
Key_id      == Str(<<105, 100>>)
Text_ferus  == <<102, 101, 114, 117, 115>>
Text_fergus == <<102, 101, 114, 103, 117, 115>>

\* struct TestStruct { name: &'static str, age: u64, id: String }
TestStruct(name, age, id) == [name |-> name, age |-> age, id |-> id]

\* #[derive(Default)]
TestStruct_default == TestStruct(Default("&str"), Default("u64"), Default("String"))

\* a pass so far: the record, and what the last call of the pass returned
Pass(self, r) == [self |-> self, r |-> r]
name_done(self, r) == Pass([self EXCEPT !.name = r.into], r)
age_done(self, r)  == Pass([self EXCEPT !.age = r.into], r)
id_done(self, r)   == Pass([self EXCEPT !.id = r.into], r)

question_mark_ignored(st, rest) == rest

\* `?`: the function returns what the call returned unless that is Ok, and
\* the rest of it is not run
question_mark(st, rest) == IF st.r.res = "Ok" THEN rest ELSE st

\* impl Serde<ReadableProfile> for TestStruct: the three calls of serde
Readable_name(self, data) ==
    name_done(self, serde_cloned_matched_entry(data, Val("&str", Key_name), self.name,
                          <<Val("&str", Str(Text_fergus)), Val("&str", Str(Text_ferus))>>))
Readable_age(st) ==
    question_mark(st, age_done(st.self,
        serde_entry(st.r.profile, Val("&str", Key_age), st.self.age)))
Readable_id(st) ==
    question_mark(st, id_done(st.self,
        serde_entry(st.r.profile, Val("&str", Key_id), st.self.id)))

\* impl Serde<EfficientProfile> for TestStruct: the two calls of serde
Efficient_age(self, data) == age_done(self, serde_item(data, self.age))
Efficient_id(st) ==
    question_mark(st, id_done(st.self, serde_item(st.r.profile, st.self.id)))

\* TestStruct::serde(&mut self, data), for the profile over the base of data
TestStruct_serde(self, data) ==
    IF data.base = "ArrayData" THEN Efficient_id(Efficient_age(self, data))
    ELSE Readable_id(Readable_age(Readable_name(self, data)))

\* the calls that serde makes on the profile when none fails
Fields(base) == IF base = "ArrayData" THEN 2 ELSE 3

\* Serde::into_data_profile: let _ = self.serde(&mut data); data
into_data_profile(self, base) == TestStruct_serde(self, serial_ready(base)).r.profile

\* Result<Self, DeserializationError>, and the data as it was dropped
Deserialized(st) ==
    [res |-> st.r.res, err |-> st.r.err, data |-> st.r.profile,
     deser |-> IF st.r.res = "Ok" THEN st.self ELSE TestStruct_default]

\* Serde::from_data_profile
from_data_profile(data) == Deserialized(TestStruct_serde(TestStruct_default, data))

\* ------------------------------------------------------------- inputs

Text_empty == <<>>
Text_a     == <<97>>
Text_ba    == <<98, 97>>
Text_gangnam == <<103, 97, 110, 103, 110, 97, 109>>
\* the longest text a one-byte length can state, and the shortest it cannot
Text_255   == Rep(97, 255)
Text_256   == Rep(97, 256)

U64_zero == <<0, 0, 0, 0>>
U64_52   == <<0, 0, 0, 52>>
U64_max  == <<65535, 65535, 65535, 65535>>

String(s) == Val("String", Str(s))
str(s)    == Val("&str", Str(s))
u64(n)    == Val("u64", U64(n))
u32(n)    == Val("u32", U32(n))

\* a nested ArrayData holding one text
ArrayData_nested ==
    [ArrayData_serial_ready EXCEPT !.data.items = <<<<Str(Text_a), "U32">>>>]

\* what serialize_item is called with (the size is U32)
ItemValues ==
    { String(Text_empty), String(Text_ba), String(Text_gangnam),
      u64(U64_zero), u64(U64_52), u64(U64_max),
      u32(<<0, 7>>),
      Val("Datum", MapD(MappedData_serial_ready)),
      Val("Datum", ArrayD(ArrayData_nested)) }

\* what push_item_sized is called with besides
SizedItems ==
    { <<String(Text_ba), "U8">>, <<String(Text_ba), "U16">>,
      <<String(Text_ba), "U64">>, <<String(Text_empty), "U8">>,
      <<String(Text_255), "U8">>, <<String(Text_256), "U8">>,
      <<String(Text_256), "U16">>, <<u64(U64_52), "U8">> }

\* the slots handed to serde_item and deserialize_item
ItemSlots == { String(Text_ba), u64(U64_52), String(Text_empty) }

\* the candidate lists handed to the matched calls on an ArrayData (&str)
StrMatches ==
    { <<>>, <<str(Text_a), str(Text_ba)>>, <<str(Text_ba), str(Text_ba)>>, <<str(Text_a)>> }

\* serialized input that no profile of this model wrote: every prefix of a
\* length of some size followed by some bytes, and of some u64
RawBodies == SeqsUpTo({97, 255}, 2)
RawBufs ==
    UNION { Prefixes(serialize_usize(size, n) \o body) :
                size \in DatumSizes, n \in 0..2, body \in RawBodies }
    \cup Prefixes(to_be_bytes(U64_52) \o <<97>>)
    \cup Prefixes(serialize_usize("U32", 7) \o Text_gangnam)

\* the names of the entries: "age", "id", "5", the number 5, and a Map
Key_5s  == Str(<<53>>)
Key_5   == U64(<<0, 0, 0, 5>>)
Key_map == MapD(MappedData_serial_ready)

Datum(d) == Val("Datum", d)

\* the names handed to the calls on a MappedData (K: Into<Datum>)
Names == { str(Key_age.val), str(Key_id.val), u64(Key_5.val), Datum(Key_map) }

\* the tables with some of `keys`, each holding one of `vals`
Tables(keys, vals) == UNION { [D -> vals] : D \in SUBSET keys }

\* the records handed to into_data_profile
U64_i64_max == <<32767, 65535, 65535, 65535>>
U64_i64_min == <<32768, 0, 0, 0>>
TestStructs ==
    { TestStruct(str(n), u64(a), String(i)) :
        n \in {Text_ferus, Text_fergus},
        a \in {U64_zero, U64_52, U64_i64_max, U64_i64_min, U64_max},
        i \in {Text_gangnam, Text_empty} }

\* tables for the fields of TestStruct: each holding a text or a number,
\* or one field missing
TestStructTables ==
    [{Key_name} -> {Stored(Str(Text_ferus)), Stored(U64(U64_52))}]
    \cup [{Key_age, Key_id} -> {Stored(Str(Text_ferus))}]
    \cup { [k \in {Key_name, Key_age, Key_id} |->
              IF k \in texts THEN Stored(Str(Text_ferus)) ELSE Stored(U64(U64_52))] :
              texts \in {{Key_name, Key_id}, {Key_name, Key_age, Key_id}, {Key_name}, {Key_id}} }
    \cup [{Key_name, Key_age} -> {Stored(Str(Text_ferus))}]

\* the backing stores a MappedData is made from
HashValues ==
    { Stored(Str(Text_ba)), Stored(U64(U64_52)), Stored(U32(<<0, 52>>)),
      Stored(MapD(MappedData_serial_ready)) }
JsonValues ==
    { JString(Text_ba), JNumber(U64_52), JNegative(<<0, 0, 0, 1>>), JNull, JObject(EmptyMap) }
Stores ==
    { HashMap("String", t) : t \in Tables({Key_age}, HashValues) }
    \cup { HashMap("String", t) : t \in [{Key_age, Key_id} -> {Stored(Str(Text_ba)), Stored(U64(U64_52))}] }
    \cup { HashMap("u64", t) : t \in Tables({Key_5}, {Stored(Str(Text_ba))}) }
    \cup { Table(t) : t \in Tables({Key_age}, JsonValues) }
    \cup { Table(t) : t \in [{Key_id, Key_5s} -> {JString(Text_ba)}] }
    \cup { HashMap("String", t) : t \in TestStructTables }

\* the values handed to serialize_entry
EntryValues ==
    { String(Text_ba), u64(U64_52), u32(<<0, 7>>), Datum(MapD(MappedData_serial_ready)) }

\* the slots handed to serde_entry and deserialize_entry
EntrySlots ==
    { String(Text_a), u64(U64_max), u32(<<0, 7>>), Val("usize", U64(U64_max)) }

\* the candidate lists handed to the matched calls on a MappedData: of &str
\* or of Datum
DatumMatches ==
    { <<Datum(U32(<<0, 52>>)), Datum(U64(U64_52)), Datum(Str(Text_ba))>>,
      <<Datum(Str(Text_ba)), Datum(Key_map)>>,
      <<Datum(Key_map), Datum(Str(Text_ba))>>,
      <<Datum(U32(<<0, 52>>))>> }
EntryMatches == StrMatches \cup DatumMatches

\* the slots handed to the matched serde calls, and the names handed to
\* serde_matched_entry, which takes a name of the type of the slot
MatchedSlots ==
    { str(Text_empty), str(Text_a), Datum(U64(U64_zero)), Datum(Str(Text_ba)) }
MatchedNames == { str(Key_age.val), Datum(Key_age), Datum(Key_map) }

\* those handed to them on a Serializing profile, with the candidates
ProducingSlots   == { str(Text_a), Datum(Str(Text_ba)) }
ProducingMatches == { <<>>, <<str(Text_a)>>, <<Datum(U32(<<0, 52>>))>> }

\* the candidates handed to them on a Deserializing profile
ConsumingMatches ==
    { <<str(Text_a), str(Text_ba)>>, <<str(Text_a)>>,
      <<Datum(U32(<<0, 52>>)), Datum(U64(U64_52)), Datum(Str(Text_ba))>>,
      <<Datum(Key_map), Datum(Str(Text_ba))>> }

\* the candidates are of the type of the slot
SlotFor(value, matches) ==
    IF matches = <<>> THEN value.ty = "&str" ELSE matches[1].ty = value.ty

\* the slot a candidate list goes with
slot_of(matches) ==
    IF matches # <<>> /\ matches[1].ty = "Datum" THEN Datum(U64(U64_zero))
    ELSE str(Text_empty)

\* -------------------------------------------------------------- state

VARIABLES
    profile,    \* the data profile the calls are made on
    wire,       \* the Vec<u8> a profile was converted into or made from
    sent,       \* the items of the profile that `wire` was converted from
    calls,      \* the calls made on `profile`
    drained,    \* what into_serialized_items / _entries returned
    puts,       \* the entries set on `profile` so far, in the order of the calls
    taken,      \* the keys whose value was pulled from `profile` so far
    record,     \* the TestStruct the last pass was given, or returned
    json,       \* the json Value a profile was converted into
    last        \* the last call: its arguments and what it returned

vars == <<profile, wire, sent, calls, drained, puts, taken, record, json, last>>

NoWire   == [some |-> FALSE, bytes |-> <<>>]
Wire(b)  == [some |-> TRUE, bytes |-> b]
NotDrained == [some |-> FALSE, items |-> <<>>, entries |-> EmptyMap]
Drained(items, entries) == [some |-> TRUE, items |-> items, entries |-> entries]
NoRecord == [some |-> FALSE, deser |-> TestStruct_default]
Record(deser) == [some |-> TRUE, deser |-> deser]
NotSent  == [encoded |-> FALSE, items |-> <<>>]
Sent(it) == [encoded |-> TRUE, items |-> it]

\* the record of a call: `pre` is the profile it was made on, `r` what it
\* returned (see Returned), the rest are its arguments
Call(op, pre, r, key, before, matches, dtype, dsize) ==
    [op |-> op, pre |-> pre, res |-> r.res, err |-> r.err,
     key |-> key, before |-> before, after |-> r.into, pulled |-> r.pulled,
     matches |-> matches, dtype |-> dtype, dsize |-> dsize]

NoCall == Call("none", Moved, Returned(Moved, NoVal, NoDatum), NoDatum, NoVal, <<>>, "", "")

\* a panic ends the process
Running == last.res # "Panic"

\* the calls of one profile are at most MaxItems; a MappedData made from
\* a Value that a profile was converted into is read by from_data_profile
\* only (the json objects that single calls read are those of Stores)
OnArray == profile.base = "ArrayData" /\ Running /\ calls < MaxItems
OnMap   == profile.base = "MappedData" /\ Running /\ calls < MaxItems /\ json = NoValue

Producing == profile.data.variant = "Serializing"

\* reader and writer share the declaration: a profile made from the bytes a
\* profile was converted into is asked for the items in the order, of the
\* types and with the sizes they were pushed
Declared(dtype, dsize) ==
    sent.encoded /\ profile.data.variant = "Deserializing" =>
        /\ calls < Len(sent.items)
        /\ dtype = sent.items[calls + 1][1].type
        /\ dsize = sent.items[calls + 1][2]

Init ==
    /\ \/ /\ profile \in {ArrayData_serial_ready, MappedData_serial_ready}
          /\ wire = NoWire
       \/ \E store \in Stores :
             /\ profile = MappedData_try_from(store)
             /\ wire = NoWire
       \/ \E raw \in RawBufs :
             /\ profile = ArrayData_try_from(raw)
             /\ wire = Wire(raw)
    /\ sent = NotSent
    /\ calls = 0
    /\ drained = NotDrained
    /\ puts = <<>>
    /\ taken = {}
    /\ record = NoRecord
    /\ json = NoValue
    /\ last = NoCall

\* the calls that set an entry of a Serializing MappedData
EntryPuts ==
    { "serialize_entry", "serde_entry",
      "serde_matched_entry", "serde_cloned_matched_entry" }

\* the calls that pull an entry from a Deserializing MappedData
EntryPulls ==
    { "deserialize_entry", "serde_entry",
      "deserialize_matched_entry", "deserialize_cloned_matched_entry",
      "serde_matched_entry", "serde_cloned_matched_entry" }

Scalars == {"String", "U32", "U64"}

\* the name an error is to carry for a key: the text, or the number in
\* decimal
NameOf(key) == to_key_string(key).bytes

\* the backing store holds a value for the key: a HashMap under the key
\* itself, a json object under the key's name
HasValue(store, key) ==
    IF store.impl = "Table" THEN Str(NameOf(key)) \in DOMAIN store.tbl
    ELSE key \in DOMAIN store.tbl

\* the call `op` is the set of an entry that returned
IsPut(op, r) == op \in EntryPuts /\ Producing /\ r.res = "Ok"

\* the call `op` is a pull of a key the store holds a value for
IsPull(op, key) ==
    /\ op \in EntryPulls
    /\ profile.data.variant = "Deserializing"
    /\ key.type \in Scalars
    /\ HasValue(profile.data.store, key)

\* a call `op` on the profile that returned r
Do(op, r, key, before, matches, dtype, dsize) ==
    /\ profile' = r.profile
    /\ last' = Call(op, profile, r, key, before, matches, dtype, dsize)
    /\ calls' = calls + 1
    /\ puts' = IF IsPut(op, r) THEN Append(puts, <<key, into_Datum(before)>>) ELSE puts
    /\ taken' = IF IsPull(op, key) THEN taken \cup {key} ELSE taken
    /\ UNCHANGED <<wire, sent, drained, record, json>>

\* ------------------------------------------------ calls on an ArrayData

SerializeItem ==
    \E item \in ItemValues :
        /\ OnArray
        /\ Producing \/ item = u64(U64_52)
        /\ Do("serialize_item", serialize_item(profile, item),
              NoDatum, item, <<>>, "", "U32")

PushItemSized ==
    \E it \in SizedItems :
        /\ OnArray
        /\ Producing \/ it = <<String(Text_ba), "U8">>
        /\ Do("push_item_sized", push_item_sized(profile, it[1], it[2]),
              NoDatum, it[1], <<>>, "", it[2])

GetItemSized ==
    \E dtype \in DatumTypes, dsize \in DatumSizes :
        /\ OnArray
        /\ Declared(dtype, dsize)
        /\ dtype \in {"U32", "Map", "Array"} => dsize = "U32" \/ sent.encoded
        /\ Producing => dtype = "String" /\ dsize = "U8"
        /\ Do("get_item_sized", get_item_sized(profile, dtype, dsize),
              NoDatum, NoVal, <<>>, dtype, dsize)

DeserializeItem ==
    \E into \in ItemSlots :
        /\ OnArray
        /\ Declared(get_datum_type(into.ty), "U32")
        /\ Producing => into = String(Text_ba)
        /\ Do("deserialize_item", deserialize_item(profile, into),
              NoDatum, into, <<>>, get_datum_type(into.ty), "U32")

DeserializeMatchedItem ==
    \E matches \in StrMatches :
        /\ OnArray
        /\ Declared("String", "U32")
        /\ Producing => matches = <<str(Text_a)>>
        /\ Do("deserialize_matched_item",
              deserialize_matched_item(profile, str(Text_empty), matches),
              NoDatum, str(Text_empty), matches, "String", "U32")

DeserializeClonedMatchedItem ==
    \E matches \in StrMatches :
        /\ OnArray
        /\ Declared("String", "U32")
        /\ Producing => matches = <<str(Text_a)>>
        /\ Do("deserialize_cloned_matched_item",
              deserialize_cloned_matched_item(profile, str(Text_empty), matches),
              NoDatum, str(Text_empty), matches, "String", "U32")

SerdeItem ==
    \E into \in ItemSlots :
        /\ OnArray
        /\ Declared(get_datum_type(into.ty), "U32")
        /\ Do("serde_item", serde_item(profile, into),
              NoDatum, into, <<>>, get_datum_type(into.ty), "U32")

SerdeMatchedItem ==
    \E into \in {str(Text_empty), str(Text_ba)}, matches \in StrMatches :
        /\ OnArray
        /\ Producing => into = str(Text_ba) /\ matches \in {<<>>, <<str(Text_ba), str(Text_ba)>>}
        /\ ~Producing => into = str(Text_empty)
        /\ ~sent.encoded
        /\ Do("serde_matched_item", serde_matched_item(profile, into, matches),
              NoDatum, into, matches, "String", "U32")

SerdeClonedMatchedItem ==
    \E into \in {str(Text_empty), str(Text_ba)}, matches \in StrMatches :
        /\ OnArray
        /\ Producing => into = str(Text_ba) /\ matches \in {<<>>, <<str(Text_ba), str(Text_ba)>>}
        /\ ~Producing => into = str(Text_empty)
        /\ ~sent.encoded
        /\ Do("serde_cloned_matched_item",
              serde_cloned_matched_item(profile, into, matches),
              NoDatum, into, matches, "String", "U32")

\* the end of into_serialized_items / into_serialized_entries: the profile
\* is moved into it
Drain(op, res, items, entries) ==
    /\ profile' = Moved
    /\ last' = Call(op, profile,
                    IF res = "Ok" THEN Returned(Moved, NoVal, NoDatum)
                    ELSE Panicked(Moved, NoVal),
                    NoDatum, NoVal, <<>>, "", "")
    /\ drained' = IF res = "Ok" THEN Drained(items, entries) ELSE NotDrained
    /\ calls' = 0
    /\ UNCHANGED <<wire, sent, puts, taken, record, json>>

IntoSerializedItems ==
    /\ profile.base = "ArrayData" /\ Running
    /\ Drain("into_serialized_items", into_serialized_items(profile).res,
             into_serialized_items(profile).items, EmptyMap)

\* ------------------------------------------------ calls on a MappedData

SerializeEntry ==
    \E name \in Names, value \in EntryValues :
        /\ OnMap
        /\ Producing \/ (name = str(Key_age.val) /\ value = u64(U64_52))
        /\ Do("serialize_entry", serialize_entry(profile, name, value),
              into_Datum(name), value, <<>>, "", "")

DeserializeEntry ==
    \E name \in Names, into \in EntrySlots :
        /\ OnMap
        /\ Producing => name = str(Key_age.val) /\ into = u64(U64_max)
        /\ Do("deserialize_entry", deserialize_entry(profile, name, into),
              into_Datum(name), into, <<>>, "", "")

DeserializeMatchedEntry ==
    \E name \in Names, matches \in EntryMatches :
        /\ OnMap
        /\ Producing => name = str(Key_age.val) /\ matches = <<str(Text_a)>>
        /\ Do("deserialize_matched_entry",
              deserialize_matched_entry(profile, name, slot_of(matches), matches),
              into_Datum(name), slot_of(matches), matches, "", "")

DeserializeClonedMatchedEntry ==
    \E name \in Names, matches \in EntryMatches :
        /\ OnMap
        /\ Producing => name = str(Key_age.val) /\ matches = <<str(Text_a)>>
        /\ Do("deserialize_cloned_matched_entry",
              deserialize_cloned_matched_entry(profile, name, slot_of(matches), matches),
              into_Datum(name), slot_of(matches), matches, "", "")

SerdeEntry ==
    \E name \in Names, value \in EntrySlots :
        /\ OnMap
        /\ Do("serde_entry", serde_entry(profile, name, value),
              into_Datum(name), value, <<>>, "", "")

SerdeMatchedEntry ==
    \E name \in MatchedNames, value \in MatchedSlots, matches \in EntryMatches :
        /\ OnMap
        /\ name.ty = value.ty
        /\ SlotFor(value, matches)
        /\ Producing => value \in ProducingSlots /\ matches \in ProducingMatches
        /\ ~Producing => value = slot_of(matches) /\ matches \in ConsumingMatches
        /\ Do("serde_matched_entry",
              serde_matched_entry(profile, name, value, matches),
              into_Datum(name), value, matches, "", "")

SerdeClonedMatchedEntry ==
    \E name \in {str(Key_age.val), Datum(Key_map)}, value \in MatchedSlots,
       matches \in EntryMatches :
        /\ OnMap
        /\ SlotFor(value, matches)
        /\ Producing => value \in ProducingSlots /\ matches \in ProducingMatches
        /\ ~Producing => value = slot_of(matches) /\ matches \in ConsumingMatches
        /\ Do("serde_cloned_matched_entry",
              serde_cloned_matched_entry(profile, name, value, matches),
              into_Datum(name), value, matches, "", "")

IntoSerializedEntries ==
    /\ profile.base = "MappedData" /\ Running
    /\ Drain("into_serialized_entries", into_serialized_entries(profile).res,
             <<>>, into_serialized_entries(profile).entries)

\* a profile as the value of a variable
Profile(p) == Val("Profile", IF p.base = "ArrayData" THEN ArrayD(p) ELSE MapD(p))

\* the profiles that make_data_profile! makes over a base
Wrapper(base) == IF base = "ArrayData" THEN "EfficientProfile" ELSE "TestProfile"

\* the end of convert_data_profile: c is what it returned and left
Converted_profile(c) ==
    /\ profile' = c.new
    /\ last' = Call("convert_data_profile", profile,
                    Returned(c.new, Profile(c.src), NoDatum),
                    NoDatum, Profile(profile), <<>>, Wrapper(profile.base), "")
    /\ UNCHANGED <<wire, sent, calls, drained, puts, taken, record, json>>

\* convert_data_profile(profile) into another profile over the same base
ConvertDataProfile ==
    /\ profile # Moved /\ Running
    /\ last.op # "convert_data_profile"
    /\ ~sent.encoded
    /\ Converted_profile(convert_data_profile(profile))

\* the entries that the calls of TestStruct::serde set on a MappedData
Puts(self, base) ==
    IF base = "ArrayData" THEN <<>>
    ELSE << <<Key_name, into_Datum(self.name)>>, <<Key_age, into_Datum(self.age)>>,
            <<Key_id, into_Datum(self.id)>> >>

\* self.into_data_profile() for the profile over the base of `profile`,
\* which is the T::serial_ready() it starts from
IntoDataProfile ==
    \E self \in TestStructs :
        /\ last = NoCall
        /\ profile = serial_ready(profile.base)
        /\ profile' = into_data_profile(self, profile.base)
        /\ last' = Call("into_data_profile", profile,
                        Returned(into_data_profile(self, profile.base), NoVal, NoDatum),
                        NoDatum, NoVal, <<>>, "", "")
        /\ calls' = Fields(profile.base)
        /\ puts' = Puts(self, profile.base)
        /\ record' = Record(self)
        /\ UNCHANGED <<wire, sent, drained, taken, json>>

\* the end of from_data_profile: the profile is moved into it, and `after`
\* of the call is the profile as it is dropped
Deserialized_from(d) ==
    /\ profile' = Moved
    /\ last' = Call("from_data_profile", profile,
                    [profile |-> Moved, res |-> d.res, err |-> d.err,
                     into |-> Profile(d.data), pulled |-> NoDatum],
                    NoDatum, Profile(profile), <<>>, "", "")
    /\ record' = IF d.res = "Ok" THEN Record(d.deser) ELSE NoRecord
    /\ calls' = 0
    /\ UNCHANGED <<wire, sent, drained, puts, taken, json>>

\* TestStruct::from_data_profile(profile)
FromDataProfile ==
    /\ profile # Moved /\ Running
    /\ calls = 0
    /\ ~Producing
    /\ Deserialized_from(from_data_profile(profile))

\* the end of ProfileToData<Value>::into: v is the Value, or NoValue
Valued_into(v) ==
    /\ profile' = Moved
    /\ last' = Call("into_Value", profile,
                    IF v # NoValue THEN Returned(Moved, NoVal, NoDatum)
                    ELSE Panicked(Moved, NoVal),
                    NoDatum, NoVal, <<>>, "", "")
    /\ json' = v
    /\ calls' = 0
    /\ UNCHANGED <<wire, sent, drained, puts, taken, record>>

\* ProfileToData::<Value>::into(profile): the profile is moved into it
IntoValue ==
    /\ profile.base = "MappedData" /\ Running
    /\ \E v \in MappedData_into_Value(profile) : Valued_into(v)

\* the end of ProfileFromData<Value>::try_from
Tried_from(r) ==
    /\ profile' = r.profile
    /\ last' = Call("try_from_Value", profile,
                    [profile |-> r.profile, res |-> r.res, err |-> r.err,
                     into |-> NoVal, pulled |-> NoDatum],
                    NoDatum, NoVal, <<>>, "", "")
    /\ calls' = 0
    /\ UNCHANGED <<wire, sent, drained, puts, taken, record, json>>

\* ProfileFromData::try_from(value) for MappedData
FromValue ==
    /\ profile = Moved /\ Running /\ last.op = "into_Value"
    /\ Tried_from(MappedData_try_from_Value(json))

\* the end of ProfileToData<Vec<u8>>::into: b is the Vec<u8> or the panic
Converted_into(b) ==
    /\ profile' = Moved
    /\ last' = Call("into_Vec", profile,
                    IF b.res = "Ok" THEN Returned(Moved, NoVal, NoDatum)
                    ELSE Panicked(Moved, NoVal),
                    NoDatum, NoVal, <<>>, "", "")
    /\ wire' = IF b.res = "Ok" THEN Wire(b.bytes) ELSE NoWire
    /\ sent' = IF b.res = "Ok" THEN Sent(profile.data.items) ELSE NotSent
    /\ calls' = 0
    /\ UNCHANGED <<drained, puts, taken, record, json>>

\* ProfileToData<Vec<u8>>::into(profile): the profile is moved into it
IntoVec ==
    /\ profile.base = "ArrayData" /\ Running
    /\ Converted_into(ArrayData_into_Vec(profile))

\* ProfileFromData<Vec<u8>>::try_from(wire) for ArrayData
FromVec ==
    /\ profile = Moved /\ Running /\ wire.some /\ last.op = "into_Vec"
    /\ profile' = ArrayData_try_from(wire.bytes)
    /\ last' = Call("try_from_Vec", profile,
                    Returned(ArrayData_try_from(wire.bytes), NoVal, NoDatum),
                    NoDatum, NoVal, <<>>, "", "")
    /\ calls' = 0
    /\ UNCHANGED <<wire, sent, drained, puts, taken, record, json>>

Next ==
    \/ SerializeItem
    \/ PushItemSized
    \/ GetItemSized
    \/ DeserializeItem
    \/ DeserializeMatchedItem
    \/ DeserializeClonedMatchedItem
    \/ SerdeItem
    \/ SerdeMatchedItem
    \/ SerdeClonedMatchedItem
    \/ IntoSerializedItems
    \/ SerializeEntry
    \/ DeserializeEntry
    \/ DeserializeMatchedEntry
    \/ DeserializeClonedMatchedEntry
    \/ SerdeEntry
    \/ SerdeMatchedEntry
    \/ SerdeClonedMatchedEntry
    \/ IntoSerializedEntries
    \/ ConvertDataProfile
    \/ IntoDataProfile
    \/ FromDataProfile
    \/ IntoValue
    \/ FromValue
    \/ IntoVec
    \/ FromVec

Spec == Init /\ [][Next]_vars

\* --------------------------------------------------------- properties

\* the last call was made on a Deserializing (Consuming) profile, or on a
\* Serializing (Producing) one
OnConsuming == last.pre.data.variant = "Deserializing"
OnProducing == last.pre.data.variant = "Serializing"

\* the calls that pull an item from an ArrayData
ItemPulls ==
    { "get_item_sized", "deserialize_item", "serde_item",
      "deserialize_matched_item", "deserialize_cloned_matched_item",
      "serde_matched_item", "serde_cloned_matched_item" }

\* items that are Text or UnsignedLarge only
TextAndU64(items) ==
    \A i \in 1..Len(items) : items[i][1].type \in {"String", "U64"}

\* a length of n bytes can be stated in a length of the size
Representable(n, size) ==
    CASE size = "U8"  -> n < 256
      [] size = "U16" -> n < 65536
      [] OTHER        -> TRUE

\* every Text of the items has a length its size can state
AllRepresentable(items) ==
    \A i \in 1..Len(items) :
        items[i][1].type = "String" => Representable(Len(items[i][1].val), items[i][2])

\* n < 2^24 as a big-endian integer of w bytes
BigEndian(n, w) ==
    [i \in 1..w |-> IF w - i >= 3 THEN 0 ELSE (n \div (256 ^ (w - i))) % 256]

\* the 8 big-endian bytes of a u64 given by its 4 limbs
EightBytes(limbs) ==
    [i \in 1..8 |-> IF i % 2 = 1 THEN limbs[(i + 1) \div 2] \div 256
                    ELSE limbs[i \div 2] % 256]

\* the number a big-endian integer stands for, or 2^24 when it is larger
\* than any buffer here is long
BigEndianValue(bytes) ==
    IF \E i \in 1..(Len(bytes) - 3) : bytes[i] # 0 THEN 16777216
    ELSE (IF Len(bytes) >= 3 THEN 65536 * bytes[Len(bytes) - 2] ELSE 0)
         + (IF Len(bytes) >= 2 THEN 256 * bytes[Len(bytes) - 1] ELSE 0)
         + (IF Len(bytes) >= 1 THEN bytes[Len(bytes)] ELSE 0)

\* the layout the binary form of Text and UnsignedLarge items is to have
RECURSIVE Layout(_)
Layout(items) ==
    IF items = <<>> THEN <<>>
    ELSE (IF Head(items)[1].type = "String"
          THEN BigEndian(Len(Head(items)[1].val), into_byte_size(Head(items)[2]))
               \o Head(items)[1].val
          ELSE EightBytes(Head(items)[1].val))
         \o Layout(Tail(items))

\* C1: a record of Text and u64 fields, serialized item by item with the
\* default size (U32), converted into a Vec<u8> and read back from it with
\* the same declaration, is read without error, every field read equal to
\* the one written, and nothing is left in the buffer after the last one.
C1_BinaryRoundTrip ==
    ( /\ sent.encoded
      /\ TextAndU64(sent.items)
      /\ \A i \in 1..Len(sent.items) : sent.items[i][2] = "U32"
      /\ last.op \in {"serde_item", "deserialize_item"}
      /\ OnConsuming )
    => /\ last.res = "Ok"
       /\ last.after.ty = last.before.ty
       /\ into_Datum(last.after) = sent.items[calls][1]
       /\ (calls = Len(sent.items) => profile.data.buf = <<>>)

\* the empty text and 2^64 - 1 were written, and both read back
C1_RoundTripReached ==
    /\ sent.encoded
    /\ sent.items = << <<Str(Text_empty), "U32">>, <<U64(U64_max), "U32">> >>
    /\ calls = 2
    /\ last.op = "serde_item" /\ last.res = "Ok"
    /\ last.after = u64(U64_max)
    /\ profile.data.buf = <<>>

\* C2: the Vec<u8> a Serializing ArrayData of Text and u64 items is
\* converted into is the concatenation, in the order of the pushes, of a
\* big-endian length of the item's size followed by the bytes for a Text
\* (whose length the size can state), and of 8 big-endian bytes for a u64
\* whatever its size; the conversion does not abort.
C2_WireLayout ==
    ( /\ last.op = "into_Vec"
      /\ OnProducing
      /\ TextAndU64(last.pre.data.items)
      /\ AllRepresentable(last.pre.data.items) )
    => /\ last.res = "Ok"
       /\ wire.some
       /\ wire.bytes = Layout(last.pre.data.items)

\* {age: 52, id: "gangnam"} with the default size
C2_GangnamReached ==
    /\ last.op = "into_Vec"
    /\ last.pre.data.items = << <<U64(U64_52), "U32">>, <<Str(Text_gangnam), "U32">> >>
    /\ wire.bytes = <<0, 0, 0, 0, 0, 0, 0, 52, 0, 0, 0, 7, 103, 97, 110, 103, 110, 97, 109>>

\* C3: for each size, a Text whose length the size can state is encoded
\* as byte_size + length bytes, the big-endian length then the text, and
\* get_item_sized with the same size returns the text and empties the
\* buffer.
C3_WidthIndependence ==
    \A size \in DatumSizes :
        ( /\ sent.encoded
          /\ Len(sent.items) = 1
          /\ sent.items[1][1].type = "String"
          /\ sent.items[1][2] = size
          /\ Representable(Len(sent.items[1][1].val), size) )
        => /\ Len(wire.bytes) = into_byte_size(size) + Len(sent.items[1][1].val)
           /\ wire.bytes = BigEndian(Len(sent.items[1][1].val), Len(wire.bytes) - Len(sent.items[1][1].val))
                           \o sent.items[1][1].val
           /\ (last.op = "get_item_sized" /\ OnConsuming)
              => /\ last.res = "Ok"
                 /\ last.pulled = sent.items[1][1]
                 /\ profile.data.buf = <<>>

\* the longest text a one-byte length states was read back with size U8
C3_LongestU8Reached ==
    /\ sent.items = << <<Str(Text_255), "U8">> >>
    /\ Len(wire.bytes) = 256
    /\ last.op = "get_item_sized" /\ last.dsize = "U8"
    /\ last.pulled = Str(Text_255)
    /\ profile.data.buf = <<>>

\* the buffer is too short for the item asked of it
Truncated(buf, dtype, dsize) ==
    \/ /\ dtype = "String"
       /\ \/ Len(buf) < into_byte_size(dsize)
          \/ Len(buf) - into_byte_size(dsize)
               < BigEndianValue(Take(buf, into_byte_size(dsize)))
    \/ /\ dtype = "U64"
       /\ Len(buf) < 8

\* C4: a pull of a Text from a buffer shorter than the length, or shorter
\* after the length than the length says, and a pull of a u64 from a
\* buffer of fewer than 8 bytes, return UnexpectedEOF: no value, no abort.
C4_TruncatedInput ==
    ( /\ last.op \in ItemPulls
      /\ OnConsuming
      /\ Truncated(last.pre.data.buf, last.dtype, last.dsize) )
    => /\ last.res = "Err"
       /\ last.err = UnexpectedEOF
       /\ last.pulled = NoDatum
       /\ last.after = last.before

\* 00 00 00 07 "gang": 7 declared, 4 supplied
C4_GangReached ==
    /\ last.op = "get_item_sized"
    /\ last.pre.data.buf = <<0, 0, 0, 7, 103, 97, 110, 103>>
    /\ last.dtype = "String" /\ last.dsize = "U32"
    /\ last.res = "Err" /\ last.err = UnexpectedEOF

\* the matched calls, on a MappedData and on an ArrayData
MatchedEntryPulls ==
    { "deserialize_matched_entry", "deserialize_cloned_matched_entry",
      "serde_matched_entry", "serde_cloned_matched_entry" }
MatchedItemPulls ==
    { "deserialize_matched_item", "deserialize_cloned_matched_item",
      "serde_matched_item", "serde_cloned_matched_item" }

\* the Datum kind a slot of a Rust type takes
KindOf(ty) ==
    CASE ty = "String" -> "String"
      [] ty = "u64"    -> "U64"
      [] ty = "usize"  -> "U64"
      [] ty = "u32"    -> "U32"
      [] ty = "Datum"  -> "Any"

\* C5 (as claimed): a pull of an entry, by deserialize_entry or one of the
\* matched forms, from a Deserializing MappedData whose store holds no
\* value for the (scalar) key returns MissingField naming the key and
\* leaves the slot as it was.
C5_MissingField ==
    ( /\ last.op \in EntryPulls
      /\ OnConsuming
      /\ last.key.type \in Scalars
      /\ ~HasValue(last.pre.data.store, last.key) )
    => /\ last.res = "Err"
       /\ last.err = MissingField(NameOf(last.key))
       /\ last.after = last.before

\* C6: deserialize_entry on a Deserializing MappedData that pulls a value
\* of another kind than the slot's type returns InvalidType whose field is
\* the key's name, and leaves the slot as it was.
C6_TypeMismatch ==
    ( /\ last.op \in {"deserialize_entry", "serde_entry"}
      /\ OnConsuming
      /\ last.pulled # NoDatum
      /\ last.pulled.type # KindOf(last.before.ty) )
    => /\ last.res = "Err"
       /\ last.err.e = "InvalidType"
       /\ last.err.field = NameOf(last.key)
       /\ last.err.field # <<>>
       /\ last.after = last.before

\* "age" holds 52 and is asked into a String
C6_AgeIntoStringReached ==
    /\ last.op = "deserialize_entry"
    /\ last.key = Key_age
    /\ last.pulled = U64(U64_52)
    /\ last.before = String(Text_a)
    /\ last.err = InvalidType(Key_age.val, "String", "todo!")
    /\ last.after = String(Text_a)

\* structural equality of a candidate and a pulled value: the same scalar
\* kind and the same payload
Equal(candidate, d) ==
    /\ d.type \in Scalars
    /\ into_Datum(candidate).type = d.type
    /\ into_Datum(candidate).val = d.val

\* the candidates before the i-th are not equal to the pulled value
FirstEqual(matches, d, i) ==
    /\ Equal(matches[i], d)
    /\ \A j \in 1..(i - 1) : ~Equal(matches[j], d)

\* C7 (as claimed): a matched call, named or positional, whose pull gives
\* a value that some candidate equals succeeds, and the slot gets the
\* first such candidate.
C7_FirstMatchWins ==
    \A i \in 1..Len(last.matches) :
        ( /\ last.op \in MatchedEntryPulls \cup MatchedItemPulls
          /\ OnConsuming
          /\ last.pulled # NoDatum
          /\ FirstEqual(last.matches, last.pulled, i) )
        => /\ last.res = "Ok"
           /\ last.after = last.matches[i]

\* C7 (amended): the same provided no candidate before the first equal one
\* is a Map or an Array, in which case the call panics; a call that
\* succeeds puts a candidate of the kind of the pulled value in the slot.
C7_FirstMatchWinsAmongScalars ==
    /\ \A i \in 1..Len(last.matches) :
        ( /\ last.op \in MatchedEntryPulls \cup MatchedItemPulls
          /\ OnConsuming
          /\ last.pulled # NoDatum
          /\ FirstEqual(last.matches, last.pulled, i) )
        => IF \A j \in 1..(i - 1) : into_Datum(last.matches[j]).type \in Scalars
           THEN /\ last.res = "Ok"
                /\ last.after = last.matches[i]
           ELSE /\ last.res = "Panic"
                /\ last.after = last.before
    /\ ( /\ last.op \in MatchedEntryPulls \cup MatchedItemPulls
         /\ OnConsuming
         /\ last.res = "Ok" )
       => /\ into_Datum(last.after).type = last.pulled.type
          /\ \E i \in 1..Len(last.matches) : FirstEqual(last.matches, last.pulled, i)

\* the u64 52 is pulled: the candidate U32(52) before it is passed over,
\* the candidate U64(52) is taken
C7_SecondCandidateReached ==
    /\ last.op = "deserialize_cloned_matched_entry"
    /\ last.pulled = U64(U64_52)
    /\ last.matches = <<Datum(U32(<<0, 52>>)), Datum(U64(U64_52)), Datum(Str(Text_ba))>>
    /\ last.res = "Ok"
    /\ last.after = Datum(U64(U64_52))

\* C8 (as claimed): a matched call on a Deserializing MappedData whose pull
\* gives a value no candidate equals returns NoMatch whose field is the
\* key's name and whose actual is the debug rendering of the value, and
\* leaves the slot as it was.
C8_NoMatch ==
    ( /\ last.op \in MatchedEntryPulls
      /\ OnConsuming
      /\ last.pulled # NoDatum
      /\ \A i \in 1..Len(last.matches) :
            /\ into_Datum(last.matches[i]).type \in Scalars
            /\ ~Equal(last.matches[i], last.pulled) )
    => /\ last.res = "Err"
       /\ last.err = NoMatch(NameOf(last.key), <<DebugFmt(last.pulled)>>)
       /\ last.after = last.before

\* the calls that only a Serializing profile takes, and those that only a
\* Deserializing one takes
ProducingOnly ==
    { "serialize_item", "push_item_sized", "into_serialized_items", "into_Vec",
      "serialize_entry", "into_serialized_entries" }
ConsumingOnly ==
    { "get_item_sized", "deserialize_item", "deserialize_matched_item",
      "deserialize_cloned_matched_item", "deserialize_entry",
      "deserialize_matched_entry", "deserialize_cloned_matched_entry" }
Drains == {"into_serialized_items", "into_Vec", "into_serialized_entries"}

\* C9: a call that only a Serializing profile takes panics on a
\* Deserializing one, and a call that only a Deserializing profile takes
\* panics on a Serializing one, on an ArrayData and on a MappedData; the
\* profile and the slot are as before the call.
C9_CrossModePanics ==
    ( \/ last.op \in ProducingOnly /\ OnConsuming
      \/ last.op \in ConsumingOnly /\ OnProducing )
    => /\ last.res = "Panic"
       /\ last.err = NoError
       /\ last.op \notin Drains => profile = last.pre
       /\ last.op \in ConsumingOnly => last.after = last.before

\* serialize_entry was called on a MappedData made from a store
C9_SerializeEntryOnConsumingReached ==
    /\ last.op = "serialize_entry"
    /\ last.pre.base = "MappedData"
    /\ last.pre.data.variant = "Deserializing"
    /\ last.res = "Panic"

\* the kinds the binary codec has no decoding for
Unsupported == {"U32", "Map", "Array"}

FourBytes(limbs) ==
    <<limbs[1] \div 256, limbs[1] % 256, limbs[2] \div 256, limbs[2] % 256>>

\* the items hold a Map, or an Array that is not Serializing, at any depth
RECURSIVE HoldsMap(_)
HoldsMap(items) ==
    \E i \in 1..Len(items) :
        \/ items[i][1].type = "Map"
        \/ /\ items[i][1].type = "Array"
           /\ \/ items[i][1].inner.data.variant # "Serializing"
              \/ HoldsMap(items[i][1].inner.data.items)

\* every Text of the items, at any depth, has a length its size can state
RECURSIVE DeepRepresentable(_)
DeepRepresentable(items) ==
    /\ AllRepresentable(items)
    /\ \A i \in 1..Len(items) :
          items[i][1].type = "Array" => DeepRepresentable(items[i][1].inner.data.items)

\* the bytes the code gives for items that hold no Map: a U32 is its 4
\* big-endian bytes, an Array the bytes of its items, nothing around them
RECURSIVE DeepLayout(_)
DeepLayout(items) ==
    IF items = <<>> THEN <<>>
    ELSE (CASE Head(items)[1].type = "String" ->
                 BigEndian(Len(Head(items)[1].val), into_byte_size(Head(items)[2]))
                 \o Head(items)[1].val
            [] Head(items)[1].type = "U64" -> EightBytes(Head(items)[1].val)
            [] Head(items)[1].type = "U32" -> FourBytes(Head(items)[1].val)
            [] Head(items)[1].type = "Array" -> DeepLayout(Head(items)[1].inner.data.items))
         \o DeepLayout(Tail(items))

C13_CompositeOperandsAbort ==
    /\ ( /\ last.op \in MatchedEntryPulls \cup MatchedItemPulls
         /\ OnConsuming
         /\ last.pulled # NoDatum
         /\ last.matches # <<>>
         /\ \/ last.pulled.type \notin Scalars
            \/ into_Datum(last.matches[1]).type \notin Scalars )
       => last.res = "Panic"
    /\ ( /\ last.op \in {"serialize_entry", "serde_entry"}
         /\ OnProducing
         /\ last.key.type \notin Scalars )
       => last.res = "Panic"
    /\ ( /\ last.op \in EntryPulls
         /\ OnConsuming
         /\ last.pre.data.store.impl = "HashMap"
         /\ last.key.type \notin Scalars )
       => last.res = "Panic"
    /\ ( /\ last.op \in MatchedEntryPulls \cup MatchedItemPulls
         /\ OnConsuming
         /\ last.pulled # NoDatum
         /\ last.pulled.type \in Scalars
         /\ \A i \in 1..Len(last.matches) : into_Datum(last.matches[i]).type \in Scalars )
       => /\ last.res # "Panic"
          /\ last.res = "Ok" <=> \E i \in 1..Len(last.matches) : Equal(last.matches[i], last.pulled)

\* n mod 2^(8 * w) for the w of the size, n < 2^24
LengthMod(n, size) ==
    CASE size = "U8"  -> n % 256
      [] size = "U16" -> n % 65536
      [] OTHER        -> n

\* the bytes of Text and u64 items when every length is reduced to the
\* width of its size
RECURSIVE TruncatedLayout(_)
TruncatedLayout(items) ==
    IF items = <<>> THEN <<>>
    ELSE (IF Head(items)[1].type = "String"
          THEN BigEndian(LengthMod(Len(Head(items)[1].val), Head(items)[2]),
                         into_byte_size(Head(items)[2]))
               \o Head(items)[1].val
          ELSE EightBytes(Head(items)[1].val))
         \o TruncatedLayout(Tail(items))

\* C17: the length of a Text of n bytes pushed with a size of w bytes is
\* encoded, without error, as exactly w bytes, the big-endian form of
\* n mod 2^(8 * w); a Text longer than the size can state is so encoded
\* with a smaller length followed by all of its bytes.
C17_LengthPrefixTruncation ==
    /\ last.op = "push_item_sized"
       => \A n \in {0, 1, 255, 256, 257, 65535, 65536, 65537} :
             /\ Len(serialize_usize(last.dsize, n)) = into_byte_size(last.dsize)
             /\ serialize_usize(last.dsize, n)
                = BigEndian(LengthMod(n, last.dsize), into_byte_size(last.dsize))
    /\ ( /\ last.op = "into_Vec"
         /\ OnProducing
         /\ TextAndU64(last.pre.data.items) )
       => /\ last.res = "Ok"
          /\ wire.some
          /\ wire.bytes = TruncatedLayout(last.pre.data.items)

\* a Text of 256 bytes pushed with size U8: the length byte is 0, and the
\* 256 bytes follow
C17_Text256AsU8Reached ==
    /\ last.op = "into_Vec"
    /\ last.pre.data.items = << <<Str(Text_256), "U8">> >>
    /\ last.res = "Ok"
    /\ wire.bytes = <<0>> \o Text_256

\* the keys put so far, and the value of the last put under a key
PutKeys == { puts[i][1] : i \in 1..Len(puts) }
LastPut(key) ==
    puts[CHOOSE i \in 1..Len(puts) :
            /\ puts[i][1] = key
            /\ \A j \in (i + 1)..Len(puts) : puts[j][1] # key][2]

\* C14: into_serialized_entries on a Serializing MappedData yields one
\* entry for each key that was set, none for any other key, and the value
\* of each entry is the value of the last set of its key.
C14_PutOverwrites ==
    ( /\ last.op = "into_serialized_entries"
      /\ OnProducing )
    => /\ last.res = "Ok"
       /\ drained.some
       /\ DOMAIN drained.entries = PutKeys
       /\ \A key \in PutKeys : drained.entries[key] = LastPut(key)

\* "age" was set to "ba" and then to 52: the entries are {age: 52}
C14_AgeSetTwiceReached ==
    /\ last.op = "into_serialized_entries"
    /\ puts = << <<Key_age, Str(Text_ba)>>, <<Key_age, U64(U64_52)>> >>
    /\ DOMAIN drained.entries = {Key_age}
    /\ drained.entries[Key_age] = U64(U64_52)

\* the key under which the store holds the value of `key`
StoreKey(store, key) ==
    IF store.impl = "Table" THEN Str(NameOf(key)) ELSE key

\* C15: on a Deserializing MappedData, a pull (by deserialize_entry, a
\* matched form or a serde form) of a key whose value an earlier pull took
\* from the store, whatever became of that value, returns MissingField
\* naming the key; and a pull leaves the store's values for all other keys
\* as they were.
C15_DestructivePull ==
    [][ ( /\ last'.op \in EntryPulls
          /\ profile.data.variant = "Deserializing"
          /\ last'.key.type \in Scalars )
        => /\ last'.key \in taken
              => /\ last'.res = "Err"
                 /\ last'.err = MissingField(NameOf(last'.key))
           /\ \A k \in DOMAIN profile.data.store.tbl :
                 k # StoreKey(profile.data.store, last'.key)
                 => /\ k \in DOMAIN profile'.data.store.tbl
                    /\ profile'.data.store.tbl[k] = profile.data.store.tbl[k]
      ]_vars

\* "age" was pulled, and asked for again: MissingField("age"), while "id"
\* is still held
C15_AgeTakenTwiceReached ==
    /\ calls = 2
    /\ last.op = "deserialize_entry"
    /\ last.key = Key_age
    /\ taken = {Key_age}
    /\ last.res = "Err"
    /\ last.err = MissingField(Key_age.val)
    /\ DOMAIN profile.data.store.tbl = {Key_id}

\* the calls that serialize or deserialize, as the profile is
SerdeEntryForms == {"serde_entry", "serde_matched_entry", "serde_cloned_matched_entry"}
SerdeItemForms  == {"serde_item", "serde_matched_item", "serde_cloned_matched_item"}

\* the entries with the value under the key
PutEntry(entries, key, value) ==
    [k \in (DOMAIN entries) \cup {key} |-> IF k = key THEN value ELSE entries[k]]

\* what the deserialize call of the same kind returns for the arguments
TakeForm(op, p, key, into, matches) ==
    CASE op = "serde_entry" -> deserialize_entry(p, Datum(key), into)
      [] op = "serde_matched_entry" -> deserialize_matched_entry(p, Datum(key), into, matches)
      [] op = "serde_cloned_matched_entry" ->
           deserialize_cloned_matched_entry(p, Datum(key), into, matches)
      [] op = "serde_item" -> deserialize_item(p, into)
      [] op = "serde_matched_item" -> deserialize_matched_item(p, into, matches)
      [] op = "serde_cloned_matched_item" -> deserialize_cloned_matched_item(p, into, matches)

\* the last call did and returned what r is
Same(r) ==
    /\ profile = r.profile
    /\ last.res = r.res
    /\ last.err = r.err
    /\ last.after = r.into
    /\ last.pulled = r.pulled

\* the last call, a serde form on a Deserializing profile, did what the
\* deserialize call of its kind does, and set nothing
TakesOnConsuming ==
    ( /\ last.op \in SerdeEntryForms \cup SerdeItemForms
      /\ OnConsuming )
    => /\ Same(TakeForm(last.op, last.pre, last.key, last.before, last.matches))
       /\ profile.data.entries = last.pre.data.entries
       /\ profile.data.items = last.pre.data.items

\* the last call, a serde form on a Serializing ArrayData, pushed the
\* slot's value, left the default in the slot and pulled nothing
PushesOnProducing ==
    ( /\ last.op \in SerdeItemForms
      /\ OnProducing )
    => /\ last.res = "Ok"
       /\ profile.data.items = Append(last.pre.data.items, <<into_Datum(last.before), "U32">>)
       /\ last.after = Default(last.before.ty)
       /\ last.pulled = NoDatum
       /\ profile.data.buf = last.pre.data.buf

\* the last call set the slot's value under the key, left the default in
\* the slot and pulled nothing
HasPut ==
    /\ last.res = "Ok"
    /\ profile.data.entries =
          PutEntry(last.pre.data.entries, last.key, into_Datum(last.before))
    /\ last.after = Default(last.before.ty)
    /\ last.pulled = NoDatum
    /\ profile.data.store = last.pre.data.store

\* C16 (as claimed): on a Serializing profile serde_entry, serde_item and
\* their matched forms put the slot's value into the profile, leave the
\* default of its type in the slot, whatever the candidates, and pull
\* nothing; on a Deserializing profile they do what the deserialize call
\* of the same kind does, and put nothing.
C16_ModeDispatch ==
    /\ (last.op \in SerdeEntryForms /\ OnProducing) => HasPut
    /\ PushesOnProducing
    /\ TakesOnConsuming

\* C16 (amended): the same, but on a Serializing MappedData the value is
\* put only when the key is a String, a U32 or a U64: with a Map or an
\* Array as the key the set panics when the key is hashed and the profile
\* is as before the call.
C16_ModeDispatchOnScalarKeys ==
    /\ (last.op \in SerdeEntryForms /\ OnProducing)
       => IF last.key.type \in Scalars THEN HasPut
          ELSE /\ last.res = "Panic"
               /\ profile = last.pre
               /\ last.pulled = NoDatum
    /\ PushesOnProducing
    /\ TakesOnConsuming

\* serde_matched_entry on a Serializing MappedData put the slot's "ba"
\* under "age", whatever the candidates were
C16_MatchedEntryPutReached ==
    /\ last.op = "serde_matched_entry"
    /\ OnProducing
    /\ last.key = Key_age
    /\ last.before = Datum(Str(Text_ba))
    /\ last.matches = <<Datum(U32(<<0, 52>>))>>
    /\ last.res = "Ok"
    /\ profile.data.entries[Key_age] = Str(Text_ba)
    /\ last.after = Datum(Datum_default)

\* the serializing flag of a profile says which variant its data is
ModeAgrees(p) ==
    IF is_serial(p) THEN p.data.variant = "Serializing"
    ELSE p.data.variant = "Deserializing"

\* a profile that is Serializing and holds nothing
FreshForOutput(p) ==
    /\ is_serial(p)
    /\ p.data.variant = "Serializing"
    /\ p.data.items = <<>>
    /\ p.data.entries = EmptyMap

\* C18: as long as there is a profile, its serializing flag is true iff
\* its data is the Serializing variant: serial_ready gives a Serializing
\* profile that holds nothing, try_from a Deserializing one, and no call,
\* convert_data_profile included, changes the one without the other; so a
\* serde call, which goes by the flag, never panics for the variant being
\* the other one: it panics on a Serializing profile only when the key of
\* an entry is a Map or an Array.
C18_ModeInvariant ==
    /\ profile # Moved => ModeAgrees(profile)
    /\ last.pre # Moved => ModeAgrees(last.pre)
    /\ FreshForOutput(ArrayData_serial_ready)
    /\ FreshForOutput(MappedData_serial_ready)
    /\ last.op \in {"none", "try_from_Vec"} /\ ~is_serial(profile)
       => profile.data.variant = "Deserializing"
    /\ last.op = "try_from_Vec" => ~is_serial(profile)
    /\ last.op = "convert_data_profile"
       => /\ is_serial(profile) = is_serial(last.pre)
          /\ profile.data.variant = last.pre.data.variant
          /\ FreshForOutput(last.after.val.inner)
    /\ ( /\ last.op \in SerdeEntryForms \cup SerdeItemForms
         /\ is_serial(last.pre)
         /\ last.res = "Panic" )
       => /\ last.op \in SerdeEntryForms
          /\ last.key.type \notin Scalars

\* a Deserializing MappedData was converted: the profile returned is
\* Deserializing, by its flag and by its data
C18_ConsumingConvertedReached ==
    /\ last.op = "convert_data_profile"
    /\ last.pre.base = "MappedData"
    /\ ~is_serial(profile)
    /\ profile.data.variant = "Deserializing"
    /\ DOMAIN profile.data.store.tbl = {Key_age}

\* C19: convert_data_profile(src) returns a profile over the same base
\* whose flag and data (the items, the entries, or the buffer or store to
\* pull from) are those of src, so that it drains into what src would have
\* drained into; src is left Serializing and holding nothing.
C19_ConvertTransfers ==
    last.op = "convert_data_profile"
    => /\ last.res = "Ok"
       /\ last.before = Profile(last.pre)
       /\ profile.base = last.pre.base
       /\ is_serial(profile) = is_serial(last.pre)
       /\ profile.data = last.pre.data
       /\ into_serialized_entries(profile) = into_serialized_entries(last.pre)
       /\ into_serialized_items(profile) = into_serialized_items(last.pre)
       /\ last.after = Profile(serial_ready(last.pre.base))
       /\ FreshForOutput(last.after.val.inner)

\* a MappedData holding {age: 52, id: "ba"} was converted
C19_TwoEntriesConvertedReached ==
    /\ last.op = "convert_data_profile"
    /\ last.dtype = "TestProfile"
    /\ DOMAIN profile.data.entries = {Key_age, Key_id}
    /\ profile.data.entries[Key_age] = U64(U64_52)
    /\ profile.data.entries[Key_id] = Str(Text_ba)
    /\ last.after = Profile(MappedData_serial_ready)

\* the takes that the declaration of TestStruct asks of a profile over the
\* base of p, in its order, each into the default of the field
Candidates == <<str(Text_fergus), str(Text_ferus)>>
Take1(p) ==
    IF p.base = "ArrayData" THEN deserialize_item(p, Default("u64"))
    ELSE deserialize_cloned_matched_entry(p, str(Key_name.val), Default("&str"), Candidates)
Take2(p) ==
    IF p.base = "ArrayData" THEN deserialize_item(p, Default("String"))
    ELSE deserialize_entry(p, str(Key_age.val), Default("u64"))
Take3(p) ==
    IF p.base = "ArrayData" THEN Returned(p, Default("String"), NoDatum)
    ELSE deserialize_entry(p, str(Key_id.val), Default("String"))

\* the profile a pass was made on as the pass left it
Dropped == last.after.val.inner

\* the pass returned what the take r returned, which is no record, and
\* left the profile as that take left it
FailedAs(r) ==
    /\ last.res = r.res
    /\ last.err = r.err
    /\ ~record.some
    /\ Dropped = r.profile

\* what the store held for the keys is still held
Kept(keys) ==
    \A k \in keys \cap DOMAIN last.pre.data.store.tbl :
        /\ k \in DOMAIN Dropped.data.store.tbl
        /\ Dropped.data.store.tbl[k] = last.pre.data.store.tbl[k]

\* C11: from_data_profile, for the declaration of TestStruct over a
\* MappedData (name, age, id) and over an ArrayData (age, id), returns the
\* error of the first take that fails, takes nothing for the fields
\* declared after it, and returns no record; when no take fails it returns
\* the record of the values taken.
C11_FailFast ==
    ( /\ last.op = "from_data_profile"
      /\ OnConsuming )
    => IF Take1(last.pre).res # "Ok"
       THEN FailedAs(Take1(last.pre)) /\ Kept({Key_age, Key_id})
       ELSE IF Take2(Take1(last.pre).profile).res # "Ok"
       THEN FailedAs(Take2(Take1(last.pre).profile)) /\ Kept({Key_id})
       ELSE IF Take3(Take2(Take1(last.pre).profile).profile).res # "Ok"
       THEN FailedAs(Take3(Take2(Take1(last.pre).profile).profile))
       ELSE /\ last.res = "Ok"
            /\ record.some
            /\ Dropped = Take3(Take2(Take1(last.pre).profile).profile).profile

\* {name: "ferus", age: "ferus", id: "ferus"}: the take of age fails, id
\* is not taken, no record
C11_AgeFailsReached ==
    /\ last.op = "from_data_profile"
    /\ DOMAIN last.pre.data.store.tbl = {Key_name, Key_age, Key_id}
    /\ last.res = "Err"
    /\ last.err = InvalidType(Key_age.val, "u64", "todo!")
    /\ ~record.some
    /\ DOMAIN Dropped.data.store.tbl = {Key_id}

\* the profile that into_data_profile returned holds the fields of the
\* record it was given, as its declaration for the base has them, and the
\* serde whose result it discards returned Ok
HoldsEveryField ==
    last.op = "into_data_profile"
    => /\ TestStruct_serde(record.deser, serial_ready(last.pre.base)).r.res = "Ok"
       /\ is_serial(profile)
       /\ IF profile.base = "ArrayData"
          THEN profile.data.items =
                  << <<into_Datum(record.deser.age), "U32">>,
                     <<into_Datum(record.deser.id), "U32">> >>
          ELSE /\ DOMAIN profile.data.entries = {Key_name, Key_age, Key_id}
               /\ profile.data.entries[Key_name] = into_Datum(record.deser.name)
               /\ profile.data.entries[Key_age] = into_Datum(record.deser.age)
               /\ profile.data.entries[Key_id] = into_Datum(record.deser.id)

\* C20 (as claimed): on a Serializing profile each of the six serde calls
\* returns Ok, whatever the slot holds and whatever the candidates are; so
\* the serde that into_data_profile runs returns Ok, and the profile
\* returned holds every field of the record.
C20_SerializePassCannotFail ==
    /\ ( /\ last.op \in SerdeEntryForms \cup SerdeItemForms
         /\ OnProducing )
       => last.res = "Ok"
    /\ HoldsEveryField

\* C20 (amended): the same for the three calls on an ArrayData, and for
\* the three on a MappedData when the key is a String, a U32 or a U64; with
\* a Map or an Array as the key they panic.
C20_SerializePassOnScalarKeys ==
    /\ ( /\ last.op \in SerdeEntryForms \cup SerdeItemForms
         /\ OnProducing )
       => IF last.op \in SerdeItemForms \/ last.key.type \in Scalars
          THEN last.res = "Ok"
          ELSE last.res = "Panic"
    /\ HoldsEveryField

\* {name: "ferus", age: 2^64 - 1, id: ""} was made into a MappedData
C20_RecordIntoMappedDataReached ==
    /\ last.op = "into_data_profile"
    /\ record = Record(TestStruct(str(Text_ferus), u64(U64_max), String(Text_empty)))
    /\ DOMAIN profile.data.entries = {Key_name, Key_age, Key_id}
    /\ profile.data.entries[Key_age] = U64(U64_max)

\* C12: named (tree) round trip.  For every TestStruct of Text and u64
\* fields, the age over the whole u64 range: when into_data_profile has
\* written it into a MappedData, the MappedData was converted into a json
\* Value (the u64 as an i64 Number), the Value was made a MappedData again
\* and from_data_profile read it with the same serde, then
\* from_data_profile returned Ok and the TestStruct it returned has the
\* field values of the original.
RoundTripOf(self) ==
    /\ puts = Puts(self, "MappedData")
    /\ json \in MappedData_into_Value(into_data_profile(self, "MappedData"))
    /\ json # NoValue
    /\ last.op = "from_data_profile"
    /\ last.pre = MappedData_try_from_Value(json).profile

C12_NamedRoundTrip ==
    \A self \in TestStructs :
        RoundTripOf(self) => last.res = "Ok" /\ record = Record(self)

\* the round trip of a TestStruct whose age is below 2^63 was made
C12_SmallAgeRoundTripReached ==
    \E self \in TestStructs :
        RoundTripOf(self) /\ self.age = u64(U64_i64_max) /\ record = Record(self)

====
